---- MODULE Spec2Model ----
(***************************************************************************)
(* Model of the segment algebra, the filter-graph construction and the     *)
(* ffmpeg process handling of app/services/editing.py, and of the silence  *)
(* parser of app/utils/silence.py.                                         *)
(*                                                                         *)
(* Times of the editing module are integers counted in milliseconds, so    *)
(* that the merge tolerance eps = 1e-3 s is one unit.  An interval         *)
(* [start, end] covers the unit cells start .. end-1.                      *)
(***************************************************************************)
EXTENDS Integers, Sequences, FiniteSets, TLC

VARIABLES
    pc,                 \* position of the running operation
    remove_segments,    \* the caller's list of remove dicts (shared objects)
    input_segments,     \* the values of that list when the call was made
    apply_color_grade,  \* argument of auto_edit_video
    normalize_audio,    \* argument of auto_edit_video
    overlay_text,       \* argument of auto_edit_video: <<>> is None, <<s>> a string
    duration,           \* <<>> before the probe, <<d>> after it
    remove,             \* result of _coalesce_ranges
    keep,               \* result of _invert_ranges
    again,              \* result of a second _coalesce_ranges (algebra only)
    filter_complex,     \* the compiled graph, <<>> before compilation
    probe_children,     \* ffprobe child processes started by this call
    encode_children,    \* ffmpeg child processes started by this call
    proc,               \* the ffmpeg child process and its pipes
    result,             \* how the call ended: <<>> while running
    lines,              \* silence parser: the lines of the diagnostic text
    pos,                \* silence parser: number of lines consumed
    current_start,      \* silence parser: <<>> is None, <<t>> a pending start
    silences            \* silence parser: intervals emitted so far

vars == <<pc, remove_segments, input_segments, apply_color_grade,
          normalize_audio, overlay_text, duration, remove, keep, again,
          filter_complex, probe_children, encode_children, proc, result,
          lines, pos, current_start, silences>>

editVars == <<apply_color_grade, normalize_audio, overlay_text,
              filter_complex, probe_children, encode_children, proc, result>>

silenceVars == <<lines, pos, current_start, silences>>

algebraVars == <<remove_segments, input_segments, duration, remove, keep, again>>

(***************************************************************************)
(* Bounds of the model.                                                    *)
(***************************************************************************)
MaxT == 3
MaxLen == 3

\* eps of _coalesce_ranges, 1e-3 seconds, in milliseconds
Eps == 1

Times == 0 .. MaxT

Interval(s, e) == [start |-> s, end |-> e]

\* every dict {start, end} over the grid, degenerate ones (end <= start) included
Intervals == [start : Times, end : Times]

SeqsUpTo(S, n) == UNION {[1 .. k -> S] : k \in 0 .. n}

Max(a, b) == IF a >= b THEN a ELSE b

None == <<>>

Some(x) == <<x>>

\* the worked examples of the specification, in milliseconds
ExampleTouching == <<Interval(0, 2000), Interval(2000, 5000), Interval(4000, 6000)>>

ExampleOverlap == <<Interval(2000, 4000), Interval(3000, 5000)>>

ExampleDuration == 10 * 1000

(***************************************************************************)
(* _coalesce_ranges.  sorted() builds a new list of the SAME dict objects, *)
(* so an object is named by its index in the caller's list: heap holds the *)
(* objects' current values, merged the indices of the objects kept.        *)
(***************************************************************************)
\* sorted(ranges, key=start): stable, ties keep their original order
SortedOrder(ranges) ==
    LET n == Len(ranges)
        Before(j, i) == \/ ranges[j].start < ranges[i].start
                        \/ ranges[j].start = ranges[i].start /\ j < i
        Rank(i) == Cardinality({j \in 1 .. n : Before(j, i)}) + 1
    IN  [k \in 1 .. n |-> CHOOSE i \in 1 .. n : Rank(i) = k]

\* r['start'] <= last['end'] + eps
TouchesNoEps(last, r) == r.start <= last.end

Touches(last, r) == r.start <= last.end + Eps

\* last['end'] = max(last['end'], r['end'])
Extend(last, r) == [last EXCEPT !.end = Max(last.end, r.end)]

\* a loop body that compares with the previous sorted element, not with merged[-1]
CoalesceStepPrev(st, ord, k) ==
    LET r    == st.heap[ord[k]]
        li   == st.merged[Len(st.merged)]
        prev == st.heap[ord[k - 1]]
    IN  IF Touches(prev, r)
        THEN [st EXCEPT !.heap[li] = Extend(st.heap[li], r)]
        ELSE [st EXCEPT !.merged = Append(@, ord[k])]

\* one iteration of "for r in ranges[1:]"
CoalesceStep(st, ord, k) ==
    LET r    == st.heap[ord[k]]
        li   == st.merged[Len(st.merged)]
        last == st.heap[li]
    IN  IF Touches(last, r)
        THEN [st EXCEPT !.heap[li] = Extend(last, r)]
        ELSE [st EXCEPT !.merged = Append(@, ord[k])]

RECURSIVE CoalesceLoop(_, _, _)
CoalesceLoop(st, ord, k) ==
    IF k > Len(ord) THEN st
    ELSE CoalesceLoop(CoalesceStep(st, ord, k), ord, k + 1)

\* the whole call: the objects after it, and which of them are returned
CoalesceRun(ranges) ==
    IF ranges = <<>> THEN [heap |-> ranges, merged |-> <<>>]
    ELSE LET ord == SortedOrder(ranges)
         IN  CoalesceLoop([heap |-> ranges, merged |-> <<ord[1]>>], ord, 2)

\* the list _coalesce_ranges returns
coalesce_ranges(ranges) ==
    LET st == CoalesceRun(ranges)
    IN  [i \in 1 .. Len(st.merged) |-> st.heap[st.merged[i]]]

\* the caller's list after the call (its dicts are updated in place)
coalesce_effect(ranges) == CoalesceRun(ranges).heap

(***************************************************************************)
(* _invert_ranges                                                          *)
(***************************************************************************)
RECURSIVE InvertLoop(_, _, _, _)
InvertLoop(rem, i, cur, kp) ==
    IF i > Len(rem) THEN [cur |-> cur, keep |-> kp]
    ELSE LET r == rem[i]
         IN  InvertLoop(rem, i + 1, Max(cur, r.end),
                        IF r.start > cur
                        THEN Append(kp, Interval(cur, r.start))
                        ELSE kp)

invert_ranges(rem, d) ==
    LET st == InvertLoop(rem, 1, 0, <<>>)
    IN  IF st.cur < d THEN Append(st.keep, Interval(st.cur, d)) ELSE st.keep

(***************************************************************************)
(* The interval algebra on its own: merge, merge again, invert.            *)
(***************************************************************************)
RangeLists == SeqsUpTo(Intervals, MaxLen) \cup {ExampleTouching, ExampleOverlap}

Durations == Times \cup {ExampleDuration}

\* a probed media file has a positive duration
ProbedDurations == Durations \ {0}

InitAlgebra ==
    /\ pc = "alg_start"
    /\ remove_segments \in RangeLists
    /\ input_segments = remove_segments
    /\ duration = None
    /\ remove = <<>>
    /\ keep = <<>>
    /\ again = <<>>
    /\ apply_color_grade = FALSE
    /\ normalize_audio = FALSE
    /\ overlay_text = None
    /\ filter_complex = None
    /\ probe_children = 0
    /\ encode_children = 0
    /\ proc = None
    /\ result = None
    /\ lines = <<>>
    /\ pos = 0
    /\ current_start = None
    /\ silences = <<>>

AlgCoalesce ==
    /\ pc = "alg_start"
    /\ remove' = coalesce_ranges(remove_segments)
    /\ remove_segments' = coalesce_effect(remove_segments)
    /\ pc' = "alg_merged"
    /\ UNCHANGED <<input_segments, duration, keep, again>>
    /\ UNCHANGED editVars
    /\ UNCHANGED silenceVars

AlgCoalesceAgain ==
    /\ pc = "alg_merged"
    /\ again' = coalesce_ranges(remove)
    /\ remove' = coalesce_effect(remove)
    /\ pc' = "alg_again"
    /\ UNCHANGED <<remove_segments, input_segments, duration, keep>>
    /\ UNCHANGED editVars
    /\ UNCHANGED silenceVars

AlgInvert ==
    /\ pc = "alg_merged"
    /\ \E d \in Durations :
          /\ duration' = Some(d)
          /\ keep' = invert_ranges(remove, d)
    /\ pc' = "alg_inverted"
    /\ UNCHANGED <<remove_segments, input_segments, remove, again>>
    /\ UNCHANGED editVars
    /\ UNCHANGED silenceVars

NextAlgebra == AlgCoalesce \/ AlgCoalesceAgain \/ AlgInvert

SpecAlgebra == InitAlgebra /\ [][NextAlgebra]_vars

(***************************************************************************)
(* auto_edit_video: probe, plan (merge, invert, check), compile the filter *)
(* graph, run ffmpeg and wait for it.                                      *)
(***************************************************************************)
EditMaxLen == 1
MaxErr == 1

\* remove lists handed to auto_edit_video
EditLists == SeqsUpTo(Intervals, EditMaxLen) \cup {ExampleOverlap}

\* overlay_text: None, the empty string, a text
OverlayTexts == {None, Some(""), Some("Hi")}

\* exit codes of the engine
ReturnCodes == {0, 1}

\* bytes the engine writes: an ASCII letter, and 0xFF, which no UTF-8 text holds
ErrBytes == {65, 255}

\* b"Invalid argument"
InvalidArgument == <<73, 110, 118, 97, 108, 105, 100, 32,
                     97, 114, 103, 117, 109, 101, 110, 116>>

ErrTexts == SeqsUpTo(ErrBytes, MaxErr) \cup {InvalidArgument}

\* bytes.decode('utf-8', 'ignore') on these bytes: undecodable bytes are dropped
Decode(bytes) == SelectSeq(bytes, LAMBDA b : b < 128)

\* "if not keep"
NeverEmpty(kp) == FALSE

NothingToKeep(kp) == kp = <<>>

\* "if proc.returncode != 0"
FailedNegative(returncode) == returncode < 0

Failed(returncode) == returncode # 0

Outcome(kind, prefix, text) == [kind |-> kind, prefix |-> prefix, text |-> text]

\* one filter of a chain; text is the interpolated overlay text of drawtext
Stage(filter, args, text) == [filter |-> filter, args |-> args, text |-> text]

\* "[0:v]trim=start={ss}:end={to},setpts=PTS-STARTPTS[v{idx}]"
TrimV(idx, seg) ==
    LET ss == Max(0, seg.start)
        to == Max(ss, seg.end)
    IN  [input |-> "0:v", filter |-> "trim", start |-> ss, end |-> to,
         reset |-> "setpts=PTS-STARTPTS", label |-> <<"v", idx>>]

\* "[0:a]atrim=start={ss}:end={to},asetpts=PTS-STARTPTS[a{idx}]"
TrimA(idx, seg) ==
    LET ss == Max(0, seg.start)
        to == Max(ss, seg.end)
    IN  [input |-> "0:a", filter |-> "atrim", start |-> ss, end |-> to,
         reset |-> "asetpts=PTS-STARTPTS", label |-> <<"a", idx>>]

\* "[v{idx}][a{idx}]"
ConcatInput(idx) == <<<<"v", idx>>, <<"a", idx>>>>

\* concat_n = len(keep)
ConcatNOffByOne(kp) == Len(kp) - 1

ConcatN(kp) == Len(kp)

ColorChain(grade) ==
    IF grade
    THEN <<Stage("eq", "contrast=1.1:brightness=0.02:saturation=1.1", "")>>
    ELSE <<>>

\* "if overlay_text": None and the empty string are both false
OverlayChain(text) ==
    IF text # None /\ text[1] # ""
    THEN <<Stage("drawtext",
                 "fontcolor=white:fontsize=24:x=(w-text_w)/2:y=50:box=1:boxcolor=black@0.4:boxborderw=10",
                 text[1])>>
    ELSE <<>>

AnChain(normalize) ==
    IF normalize THEN <<Stage("loudnorm", "I=-16:TP=-1.5:LRA=11", "")>> ELSE <<>>

\* a video chain with the format filter put last
VideoChainFormatLast(grade, text) ==
    ColorChain(grade) \o OverlayChain(text) \o <<Stage("format", "yuv420p", "")>>

\* "[v]format=yuv420p{color_chain}{overlay_chain}[vout]"
VideoChain(grade, text) ==
    <<Stage("format", "yuv420p", "")>> \o ColorChain(grade) \o OverlayChain(text)

\* "[a]anull{an_chain}[aout]"
AudioChain(normalize) == <<Stage("anull", "", "")>> \o AnChain(normalize)

\* filter_complex, as the stages the string names
FilterComplex(kp, grade, normalize, text) ==
    [vf     |-> [i \in 1 .. Len(kp) |-> TrimV(i - 1, kp[i])],
     af     |-> [i \in 1 .. Len(kp) |-> TrimA(i - 1, kp[i])],
     concat |-> [inputs |-> [i \in 1 .. Len(kp) |-> ConcatInput(i - 1)],
                 n |-> ConcatN(kp), v |-> 1, a |-> 1, out |-> <<"v", "a">>],
     video  |-> [input |-> "v", chain |-> VideoChain(grade, text), out |-> "vout"],
     audio  |-> [input |-> "a", chain |-> AudioChain(normalize), out |-> "aout"]]

Init ==
    /\ pc = "probe"
    /\ remove_segments \in EditLists
    /\ input_segments = remove_segments
    /\ apply_color_grade \in BOOLEAN
    /\ normalize_audio \in BOOLEAN
    /\ overlay_text \in OverlayTexts
    /\ duration = None
    /\ remove = <<>>
    /\ keep = <<>>
    /\ again = <<>>
    /\ filter_complex = None
    /\ probe_children = 0
    /\ encode_children = 0
    /\ proc = None
    /\ result = None
    /\ lines = <<>>
    /\ pos = 0
    /\ current_start = None
    /\ silences = <<>>

editArgs == <<input_segments, apply_color_grade, normalize_audio, overlay_text>>

\* _probe_duration: ffmpeg.probe runs ffprobe as a child process and waits for it
ProbeOk ==
    /\ pc = "probe"
    /\ probe_children' = probe_children + 1
    /\ \E d \in ProbedDurations : duration' = Some(d)
    /\ pc' = "plan"
    /\ UNCHANGED <<remove_segments, remove, keep, again, filter_complex,
                   encode_children, proc, result>>
    /\ UNCHANGED editArgs
    /\ UNCHANGED silenceVars

\* ffprobe exits nonzero, or its answer holds no duration: the call raises
ProbeFail ==
    /\ pc = "probe"
    /\ probe_children' = probe_children + 1
    /\ result' = Some(Outcome("ffmpeg.Error", "ffprobe error", <<>>))
    /\ pc' = "done"
    /\ UNCHANGED <<remove_segments, duration, remove, keep, again,
                   filter_complex, encode_children, proc>>
    /\ UNCHANGED editArgs
    /\ UNCHANGED silenceVars

\* remove = _coalesce_ranges(...); keep = _invert_ranges(...); if not keep: raise
PlanKeep ==
    /\ pc = "plan"
    /\ LET rem == coalesce_ranges(remove_segments)
           kp  == invert_ranges(rem, duration[1])
       IN  /\ remove' = rem
           /\ remove_segments' = coalesce_effect(remove_segments)
           /\ keep' = kp
           /\ IF NothingToKeep(kp)
              THEN /\ result' = Some(Outcome("ValueError",
                                     "Nothing to keep after removing segments", <<>>))
                   /\ pc' = "done"
              ELSE /\ result' = result
                   /\ pc' = "compile"
    /\ UNCHANGED <<duration, again, filter_complex, probe_children,
                   encode_children, proc>>
    /\ UNCHANGED editArgs
    /\ UNCHANGED silenceVars

\* the filter_complex string is built; no process runs and nothing can fail
Compile ==
    /\ pc = "compile"
    /\ filter_complex' = Some(FilterComplex(keep, apply_color_grade,
                                            normalize_audio, overlay_text))
    /\ pc' = "spawn"
    /\ UNCHANGED <<remove_segments, duration, remove, keep, again,
                   probe_children, encode_children, proc, result>>
    /\ UNCHANGED editArgs
    /\ UNCHANGED silenceVars

\* asyncio.create_subprocess_exec(..., stdout=PIPE, stderr=PIPE)
Spawn ==
    /\ pc = "spawn"
    /\ encode_children' = encode_children + 1
    /\ proc' = Some([state |-> "running", returncode |-> None,
                     stdout_pipe |-> <<>>, stderr_pipe |-> <<>>,
                     stdout_eof |-> FALSE, stderr_eof |-> FALSE,
                     stdout |-> <<>>, stderr |-> <<>>, written |-> <<>>])
    /\ pc' = "communicate"
    /\ UNCHANGED <<remove_segments, duration, remove, keep, again,
                   filter_complex, probe_children, result>>
    /\ UNCHANGED editArgs
    /\ UNCHANGED silenceVars

\* the engine writes its diagnostics and exits; its pipe ends are closed
ChildExit ==
    /\ pc = "communicate"
    /\ proc[1].state = "running"
    /\ \E rc \in ReturnCodes, text \in ErrTexts :
          proc' = Some([proc[1] EXCEPT !.state = "exited",
                                       !.returncode = Some(rc),
                                       !.stderr_pipe = text,
                                       !.written = text])
    /\ UNCHANGED <<pc, remove_segments, duration, remove, keep, again,
                   filter_complex, probe_children, encode_children, result>>
    /\ UNCHANGED editArgs
    /\ UNCHANGED silenceVars

\* communicate() reads stdout up to end of file
DrainStdout ==
    /\ pc = "communicate"
    /\ proc[1].state = "exited"
    /\ ~proc[1].stdout_eof
    /\ proc' = Some([proc[1] EXCEPT !.stdout = @ \o proc[1].stdout_pipe,
                                    !.stdout_pipe = <<>>,
                                    !.stdout_eof = TRUE])
    /\ UNCHANGED <<pc, remove_segments, duration, remove, keep, again,
                   filter_complex, probe_children, encode_children, result>>
    /\ UNCHANGED editArgs
    /\ UNCHANGED silenceVars

\* communicate() reads stderr up to end of file
DrainStderr ==
    /\ pc = "communicate"
    /\ proc[1].state = "exited"
    /\ ~proc[1].stderr_eof
    /\ proc' = Some([proc[1] EXCEPT !.stderr = @ \o proc[1].stderr_pipe,
                                    !.stderr_pipe = <<>>,
                                    !.stderr_eof = TRUE])
    /\ UNCHANGED <<pc, remove_segments, duration, remove, keep, again,
                   filter_complex, probe_children, encode_children, result>>
    /\ UNCHANGED editArgs
    /\ UNCHANGED silenceVars

\* communicate() returns once both pipes are read out and the process is reaped
CommunicateEarly(p) == p.state = "exited"

CommunicateDone(p) == p.state = "exited" /\ p.stdout_eof /\ p.stderr_eof

\* stdout, stderr = await proc.communicate(); raise on a nonzero return code
CommunicateReturn ==
    /\ pc = "communicate"
    /\ CommunicateDone(proc[1])
    /\ result' = IF Failed(proc[1].returncode[1])
                 THEN Some(Outcome("RuntimeError", "ffmpeg failed: ",
                                   Decode(proc[1].stderr)))
                 ELSE Some(Outcome("ok", "", <<>>))
    /\ pc' = "done"
    /\ UNCHANGED <<remove_segments, duration, remove, keep, again,
                   filter_complex, probe_children, encode_children, proc>>
    /\ UNCHANGED editArgs
    /\ UNCHANGED silenceVars

Next ==
    \/ ProbeOk
    \/ ProbeFail
    \/ PlanKeep
    \/ Compile
    \/ Spawn
    \/ ChildExit
    \/ DrainStdout
    \/ DrainStderr
    \/ CommunicateReturn

Spec == Init /\ [][Next]_vars

(***************************************************************************)
(* detect_silence_intervals: the loop over the lines of ffmpeg's stderr.   *)
(* A line is the sequence of markers its text holds, in the order of the   *)
(* text; a marker is "silence_start: <t>" or "silence_end: <t>".           *)
(***************************************************************************)
MaxLines == 3

\* the decimal texts "1.0", "2.5", "9.0"
Stamps == {[whole |-> 1, frac |-> 0], [whole |-> 2, frac |-> 5],
           [whole |-> 9, frac |-> 0]}

\* float(m.group(1)), in tenths of a second
FloatOf(stamp) == stamp.whole * 10 + stamp.frac

Marker(kind, stamp) == [kind |-> kind, stamp |-> stamp]

Markers == [kind : {"start", "end"}, stamp : Stamps]

\* a line holds no marker, one marker, or a start and an end in either order
LineTexts ==
    {<<>>} \cup {<<m>> : m \in Markers}
           \cup {p \in Markers \X Markers : p[1].kind # p[2].kind}

\* "silence_start: 1.0\nsilence_end: 2.5\nsilence_start: 9.0\n"
ExampleStream == << <<Marker("start", [whole |-> 1, frac |-> 0])>>,
                    <<Marker("end", [whole |-> 2, frac |-> 5])>>,
                    <<Marker("start", [whole |-> 9, frac |-> 0])>> >>

Streams == SeqsUpTo(LineTexts, MaxLines)

\* re.search: the first marker of that kind in the line, None without one
Search(kind, line) ==
    LET hits == SelectSeq(line, LAMBDA m : m.kind = kind)
    IN  IF hits = <<>> THEN None ELSE Some(hits[1].stamp)

InitSilence ==
    /\ pc = "silence_loop"
    /\ lines \in Streams
    /\ pos = 0
    /\ current_start = None
    /\ silences = <<>>
    /\ remove_segments = <<>>
    /\ input_segments = <<>>
    /\ duration = None
    /\ remove = <<>>
    /\ keep = <<>>
    /\ again = <<>>
    /\ apply_color_grade = FALSE
    /\ normalize_audio = FALSE
    /\ overlay_text = None
    /\ filter_complex = None
    /\ probe_children = 0
    /\ encode_children = 0
    /\ proc = None
    /\ result = None

\* one iteration of "for line in text.splitlines()"
ParseLine ==
    /\ pc = "silence_loop"
    /\ pos < Len(lines)
    /\ LET line == lines[pos + 1]
           m1   == Search("start", line)
           m2   == Search("end", line)
           cs   == IF m1 # None THEN Some(FloatOf(m1[1])) ELSE current_start
       IN  IF m2 # None /\ cs # None
           THEN /\ silences' = Append(silences, Interval(cs[1], FloatOf(m2[1])))
                /\ current_start' = None
           ELSE /\ silences' = silences
                /\ current_start' = cs
    /\ pos' = pos + 1
    /\ UNCHANGED <<pc, lines>>
    /\ UNCHANGED algebraVars
    /\ UNCHANGED editVars

\* "return silences" once the lines are used up
SilenceReturn ==
    /\ pc = "silence_loop"
    /\ pos = Len(lines)
    /\ pc' = "silence_done"
    /\ UNCHANGED silenceVars
    /\ UNCHANGED algebraVars
    /\ UNCHANGED editVars

NextSilence == ParseLine \/ SilenceReturn

SpecSilence == InitSilence /\ [][NextSilence]_vars

(***************************************************************************)
(* Properties of the interval algebra (checked under SpecAlgebra).         *)
(***************************************************************************)
\* the unit cells, of one millisecond each, that the intervals of a list cover
Cells(list) == UNION {list[i].start .. (list[i].end - 1) : i \in 1 .. Len(list)}

SortedByStart(list) ==
    \A i, j \in 1 .. Len(list) : i < j => list[i].start <= list[j].start

\* no two intervals overlap or lie within eps of each other
SeparatedByEps(list) ==
    \A i, j \in 1 .. Len(list) : i < j => list[j].start > list[i].end + Eps

\* a point the merge added lies in a gap of at most eps between two inputs
InBridgedGap(p, list) ==
    \E i, j \in 1 .. Len(list) :
        /\ list[i].end <= p
        /\ p < list[j].start
        /\ list[j].start <= list[i].end + Eps

Proper(list) == \A i \in 1 .. Len(list) : list[i].start < list[i].end

\* C1 as stated: the output of merge is sorted by start, its intervals are
\* separated by more than eps, and it covers exactly the union of the inputs
\* (read here on inputs that hold no degenerate interval).
C1_MergeCoversExactly ==
    (pc = "alg_merged" /\ Proper(input_segments)) =>
        /\ SortedByStart(remove)
        /\ SeparatedByEps(remove)
        /\ Cells(remove) = Cells(input_segments)

\* C1 amended: the output of merge is sorted by start, its intervals are
\* separated by more than eps, it covers every point of the inputs, and every
\* point it adds lies in a gap of at most eps between two input intervals.
C1_MergeCoversUpToEps ==
    pc = "alg_merged" =>
        /\ SortedByStart(remove)
        /\ SeparatedByEps(remove)
        /\ Cells(input_segments) \subseteq Cells(remove)
        /\ \A p \in Cells(remove) \ Cells(input_segments) :
              InBridgedGap(p, input_segments)

\* an unsorted input whose two intervals lie eps apart has been merged into one
C1_Witness ==
    /\ pc = "alg_merged"
    /\ input_segments = <<Interval(2, 3), Interval(0, 1)>>
    /\ remove = <<Interval(0, 3)>>

\* a merged, sorted remove-set of valid intervals (end >= start >= 0)
IsIntervalSet(list) ==
    /\ \A i \in 1 .. Len(list) : 0 <= list[i].start /\ list[i].start <= list[i].end
    /\ SortedByStart(list)
    /\ SeparatedByEps(list)

\* C2 as stated: for a merged, sorted remove-set R and a duration D >= 0 the
\* keep-intervals are sorted, do not overlap, lie inside [0, D], and together
\* with R restricted to [0, D] cover [0, D] exactly once; an empty R with
\* D > 0 gives the single interval [0, D].
C2_InvertPartitionsDuration ==
    (pc = "alg_inverted" /\ IsIntervalSet(remove)) =>
        LET d == duration[1]
        IN  /\ SortedByStart(keep)
            /\ \A i, j \in 1 .. Len(keep) :
                  i < j => Cells(<<keep[i]>>) \cap Cells(<<keep[j]>>) = {}
            /\ \A i \in 1 .. Len(keep) :
                  0 <= keep[i].start /\ keep[i].start <= keep[i].end /\ keep[i].end <= d
            /\ Cells(keep) \cap Cells(remove) = {}
            /\ Cells(keep) \cup (Cells(remove) \cap (0 .. (d - 1))) = 0 .. (d - 1)
            /\ (remove = <<>> /\ d > 0) => keep = <<Interval(0, d)>>

\* C8: merge is idempotent, merging the output of merge gives that output again
C8_MergeIdempotent ==
    pc = "alg_again" => again = remove

\* the first merge joined some of three inputs and left two intervals
C8_Witness ==
    /\ pc = "alg_again"
    /\ Len(input_segments) = 3
    /\ Len(remove) = 2
    /\ remove # input_segments
    /\ again = remove

(***************************************************************************)
(* Properties of auto_edit_video (checked under Spec).                     *)
(***************************************************************************)
Planned == pc \in {"compile", "spawn", "communicate", "done"} /\ duration # None

\* the list without its degenerate intervals (end <= start)
DropDegenerate(list) == SelectSeq(list, LAMBDA r : r.start < r.end)

\* C3: degenerate remove-intervals contribute nothing: the keep-intervals of
\* the edit operation are those computed from the list without them.
C3_DegenerateDropped ==
    Planned =>
        keep = invert_ranges(coalesce_ranges(DropDegenerate(input_segments)),
                             duration[1])

NoContent ==
    Some(Outcome("ValueError", "Nothing to keep after removing segments", <<>>))

\* C4 as stated: an empty keep-set makes the call fail with the no-content
\* error, and no child process has been started in an execution that ends so.
C4_NoContentBeforeAnyChild ==
    /\ (Planned /\ keep = <<>>) => result = NoContent
    /\ result = NoContent => probe_children + encode_children = 0

\* C4 amended: an empty keep-set makes the call fail with the no-content
\* error before the encoding process is started; the one child process of
\* such an execution is the duration probe.
C4_NoContentBeforeEncode ==
    /\ (Planned /\ keep = <<>>) => (result = NoContent /\ pc = "done")
    /\ result = NoContent =>
          /\ keep = <<>>
          /\ encode_children = 0
          /\ proc = None
          /\ filter_complex = None
          /\ probe_children = 1

\* the whole duration is removed and the call has raised
C4_Witness ==
    /\ result = NoContent
    /\ input_segments = <<Interval(0, 3)>>
    /\ duration = Some(3)

Returned == pc = "done" /\ proc # None

\* C5 as stated: the call succeeds iff the exit code is zero, and a nonzero
\* exit code raises an error whose diagnostic text is the engine's
\* standard-error text verbatim.
C5_ErrorCarriesStderrVerbatim ==
    /\ pc = "done" =>
          (result[1].kind = "ok" <=> (proc # None /\ proc[1].returncode = Some(0)))
    /\ (Returned /\ proc[1].returncode # Some(0)) =>
          /\ result[1].kind = "RuntimeError"
          /\ result[1].text = proc[1].written

\* C5 amended: the call succeeds iff the exit code is zero, and a nonzero
\* exit code raises an error whose message is "ffmpeg failed: " followed by
\* the standard-error text decoded as UTF-8 with undecodable bytes left out,
\* which is the text itself when all of it decodes.
C5_ErrorCarriesDecodedStderr ==
    /\ pc = "done" =>
          (result[1].kind = "ok" <=> (proc # None /\ proc[1].returncode = Some(0)))
    /\ (Returned /\ proc[1].returncode # Some(0)) =>
          LET w == proc[1].written
          IN  /\ result[1].kind = "RuntimeError"
              /\ result[1].prefix = "ffmpeg failed: "
              /\ result[1].text = SelectSeq(w, LAMBDA b : b \in 0 .. 127)
              /\ (\A i \in 1 .. Len(w) : w[i] \in 0 .. 127) => result[1].text = w

\* exit code 1 with "Invalid argument" on standard error has raised
C5_Witness ==
    /\ pc = "done"
    /\ proc # None
    /\ proc[1].returncode = Some(1)
    /\ proc[1].written = InvalidArgument
    /\ result = Some(Outcome("RuntimeError", "ffmpeg failed: ", InvalidArgument))

\* C6: the graph holds one video trim and one audio trim per keep-interval,
\* stage idx trimming keep-interval idx, and one concat stage with
\* n = len(keep) whose inputs are the pairs (v idx, a idx) for idx = 0..n-1.
C6_TrimPairsAndConcat ==
    filter_complex # None =>
        LET g == filter_complex[1]
            n == Len(keep)
        IN  /\ n >= 1
            /\ Len(g.vf) = n
            /\ Len(g.af) = n
            /\ \A i \in 1 .. n :
                  /\ g.vf[i].filter = "trim" /\ g.vf[i].input = "0:v"
                  /\ g.vf[i].start = keep[i].start /\ g.vf[i].end = keep[i].end
                  /\ g.vf[i].label = <<"v", i - 1>>
                  /\ g.af[i].filter = "atrim" /\ g.af[i].input = "0:a"
                  /\ g.af[i].start = keep[i].start /\ g.af[i].end = keep[i].end
                  /\ g.af[i].label = <<"a", i - 1>>
            /\ g.concat.n = n
            /\ Len(g.concat.inputs) = n
            /\ \A i \in 1 .. n :
                  g.concat.inputs[i] = <<g.vf[i].label, g.af[i].label>>

\* duration 10 s with remove [{2,4},{3,5}]: keep [{0,2},{5,10}], concat n=2
C6_Witness ==
    /\ filter_complex # None
    /\ input_segments = ExampleOverlap
    /\ duration = Some(ExampleDuration)
    /\ remove = <<Interval(2000, 5000)>>
    /\ keep = <<Interval(0, 2000), Interval(5000, 10000)>>
    /\ Len(filter_complex[1].vf) = 2
    /\ filter_complex[1].concat.n = 2

Drained(p) ==
    /\ p.state = "exited"
    /\ p.stdout_eof /\ p.stderr_eof
    /\ p.stdout_pipe = <<>> /\ p.stderr_pipe = <<>>
    /\ p.stderr = p.written

\* C9 as stated: a call starts exactly one child process, never retries, and
\* returns only after that process has exited with both pipes drained.
C9_ExactlyOneChild ==
    pc = "done" =>
        /\ probe_children + encode_children = 1
        /\ proc # None => Drained(proc[1])

\* C9 amended: a call starts one probing process (ffprobe) and then at most one
\* encoding process (ffmpeg), which it starts iff the keep-set is not empty and
\* never restarts; a call that started the encoding process returns only after
\* that process has exited with both pipes drained.
C9_OneEncodeChildAfterProbe ==
    /\ probe_children <= 1
    /\ encode_children <= 1
    /\ (encode_children = 1) <=> (proc # None)
    /\ pc = "done" =>
          /\ probe_children = 1
          /\ (encode_children = 1) <=> (duration # None /\ keep # <<>>)
          /\ proc # None => Drained(proc[1])

\* a failed encode has returned: two children in all, the engine started once
C9_Witness ==
    /\ pc = "done"
    /\ probe_children = 1
    /\ encode_children = 1
    /\ proc[1].returncode = Some(1)
    /\ proc[1].written # <<>>
    /\ result[1].kind = "RuntimeError"

Has(chain, filter) == \E i \in 1 .. Len(chain) : chain[i].filter = filter

\* the filters f and g both occur, every f before every g
Precedes(chain, f, g) ==
    \A i, j \in 1 .. Len(chain) :
        (chain[i].filter = f /\ chain[j].filter = g) => i < j

OverlayGiven == overlay_text # None /\ overlay_text # Some("")

StagesAsToggled(g) ==
    /\ Has(g.video.chain, "eq") <=> apply_color_grade
    /\ Has(g.video.chain, "drawtext") <=> OverlayGiven
    /\ Has(g.video.chain, "format")
    /\ Len(g.video.chain) = 1 + (IF apply_color_grade THEN 1 ELSE 0)
                              + (IF OverlayGiven THEN 1 ELSE 0)
    /\ \A i \in 1 .. Len(g.video.chain) :
          g.video.chain[i].filter = "drawtext" =>
              g.video.chain[i].text = overlay_text[1]
    /\ Precedes(g.video.chain, "eq", "drawtext")
    /\ Has(g.audio.chain, "loudnorm") <=> normalize_audio
    /\ g.audio.chain = IF normalize_audio
                       THEN <<Stage("anull", "", ""),
                              Stage("loudnorm", "I=-16:TP=-1.5:LRA=11", "")>>
                       ELSE <<Stage("anull", "", "")>>

\* C10 as stated: after concat the video branch is color-grade (iff toggled),
\* then text-overlay (iff a non-empty text is given), then pixel-format
\* normalization as the final stage; the audio branch holds loudness
\* normalization iff toggled and passes through otherwise.
C10_FormatIsFinalStage ==
    filter_complex # None =>
        LET g == filter_complex[1]
        IN  /\ StagesAsToggled(g)
            /\ g.video.chain[Len(g.video.chain)].filter = "format"

\* C10 amended: after concat the video branch is pixel-format normalization as
\* the FIRST stage, then color-grade (iff toggled), then text-overlay (iff a
\* non-empty text is given); the audio branch is as stated.
C10_FormatIsFirstStage ==
    filter_complex # None =>
        LET g == filter_complex[1]
        IN  /\ StagesAsToggled(g)
            /\ g.video.chain[1] = Stage("format", "yuv420p", "")
            /\ Precedes(g.video.chain, "format", "eq")
            /\ Precedes(g.video.chain, "format", "drawtext")

\* a graph compiled with all three effects on
C10_Witness ==
    /\ filter_complex # None
    /\ apply_color_grade
    /\ normalize_audio
    /\ overlay_text = Some("Hi")
    /\ Len(filter_complex[1].video.chain) = 3
    /\ Len(filter_complex[1].audio.chain) = 2

(***************************************************************************)
(* Properties of the silence parser (checked under SpecSilence).           *)
(***************************************************************************)
\* the markers of the stream, in the order of the text
RECURSIVE Flatten(_)
Flatten(ls) == IF ls = <<>> THEN <<>> ELSE Head(ls) \o Flatten(Tail(ls))

\* the two-state machine {Idle, InSilence} run over a marker sequence: cs is
\* None in Idle and the recorded start in InSilence
RECURSIVE Machine(_, _, _)
Machine(ms, cs, out) ==
    IF ms = <<>> THEN out
    ELSE LET m == Head(ms)
         IN  IF m.kind = "start"
             THEN Machine(Tail(ms), Some(FloatOf(m.stamp)), out)
             ELSE IF cs # None
                  THEN Machine(Tail(ms), None,
                               Append(out, Interval(cs[1], FloatOf(m.stamp))))
                  ELSE Machine(Tail(ms), None, out)

\* C7: the parser is the two-state machine over the markers of the stream: an
\* interval is emitted only on an end marker seen while InSilence, an end
\* marker seen while Idle emits nothing, a start left pending is discarded;
\* "silence_start: 1.0, silence_end: 2.5, silence_start: 9.0" gives [{1.0, 2.5}].
C7_TwoStateMachineOverStream ==
    pc = "silence_done" =>
        /\ silences = Machine(Flatten(lines), None, <<>>)
        /\ lines = ExampleStream => silences = <<Interval(10, 25)>>

(***************************************************************************)
(* Frame property of the caller's remove list (checked under Spec).        *)
(***************************************************************************)
\* C11: intervals are immutable values: merge and the edit operation leave
\* every interval of the caller's remove list with the start and end it had
\* when the call was made.
C11_CallerListUnchanged ==
    /\ Len(remove_segments) = Len(input_segments)
    /\ \A i \in 1 .. Len(input_segments) :
          /\ remove_segments[i].start = input_segments[i].start
          /\ remove_segments[i].end = input_segments[i].end

====
